---------------------------- MODULE Spec2Model ----------------------------
(***************************************************************************)
(* Model of the AiCryptoBot trading core: RiskManager                      *)
(* (src/risk/risk_manager.py), TradingExecutor (src/trading/executor.py)   *)
(* and the loop controllers (src/web/bot_controller.py, src/web/app.py).   *)
(*                                                                         *)
(* Numbers.  Prices are whole dollars.  Quantities are counted in          *)
(* hundredths of a coin and money in hundredths of a dollar, so that       *)
(* pnl = (exit - entry) * quantity is exact.  Fractions (drawdown, sizes)  *)
(* are pairs <<numerator, denominator>> with a positive denominator.       *)
(***************************************************************************)
EXTENDS Integers, Sequences, FiniteSets, TLC

VARIABLES
    risk_manager,      \* the RiskManager instance (its fields, as a record)
    today,             \* datetime.now().date(), a day number >= 1
    clock,             \* datetime.now() for direct RiskManager calls, a logical
                       \* timestamp (the loop's timestamp is its iteration)
    closed_trades,     \* the records close_position has returned so far
    ret,               \* what the last RiskManager call returned
    steps,             \* number of RiskManager API calls made (bounded run)
    \* TradingExecutor and its loop
    mode,              \* "cli": main.py's run_trading_loop; "web": app.py's loop
    dry_run,           \* the dry_run argument the loop passes on
    pc,                \* where the loop is
    queue,             \* the symbols the current for-loop still has to visit
    iteration,         \* iterations started
    active_positions,  \* TradingExecutor.active_positions: symbol -> data
    exchange,          \* calls made on the exchange by the step just taken
    trades_db,         \* TradeLogger's trades table, row i has trade_id i
    signal,            \* the last decision of generate_signal
    \* The controls of the web dashboard and the loop threads they start
    controller,        \* BotController: running, paused, thread; joining: stop()
                       \* is waiting in thread.join(timeout=5)
    bot_state,         \* app.py: bot_state['status'] and trading_bot_thread
    threads,           \* every loop thread started so far: its owner and place
    \* Backtester
    backtest           \* walk_forward_validation and _backtest_period: where
                       \* they are and their local variables

rm_vars == <<risk_manager, today, clock, closed_trades>>
api_vars == <<ret, steps>>
ex_vars == <<mode, dry_run, pc, queue, iteration, active_positions, exchange,
             trades_db, signal>>
ctl_vars == <<controller, bot_state, threads>>
bt_vars == <<backtest>>
vars == <<rm_vars, api_vars, ex_vars, ctl_vars, bt_vars>>

---------------------------------------------------------------------------
(* Bounds of the model and configuration values.                           *)

\* Longest sequence of direct RiskManager calls explored.
MaxOps == 4
\* Last calendar day explored.
MaxDay == 2
\* risk.max_daily_trades as configured (the code's default is 10).
max_daily_trades == 2
\* risk.max_open_positions (the code's default).
max_open_positions == 3
\* risk.max_drawdown_percent
max_drawdown_percent == 15
\* The capital the RiskManager is constructed with, in hundredths of a dollar.
initial_capital == 100000

Symbols == {"BTC/USDT", "ETH/USDT"}
Directions == {"long", "short"}
\* Prices the market can show.
Prices == {85, 100, 115}
\* Average True Range values the indicator column can hold.
Atrs == {0, 5}
\* Quantities a caller of add_position may pass (hundredths of a coin).
Quantities == {500, 1000}

\* Python's None where a record is expected.
None == [none |-> TRUE]
\* An empty dict.
EmptyDict == [k \in {} |-> None]
\* The exchange before a step has called it.
NoCalls == [create_order |-> 0, cancel_order |-> 0]
\* No backtest has been started.
NoBacktest == [pc |-> "idle"]

---------------------------------------------------------------------------
(* Fractions.                                                              *)

RGeq(a, b) == a[1] * b[2] >= b[1] * a[2]
RLess(a, b) == a[1] * b[2] < b[1] * a[2]
Max(a, b) == IF a >= b THEN a ELSE b
Min(a, b) == IF a <= b THEN a ELSE b

---------------------------------------------------------------------------
(* RiskManager                                                             *)

RiskManagerInit ==
    [ initial_capital |-> initial_capital,
      current_capital |-> initial_capital,
      peak_capital    |-> initial_capital,
      open_positions  |-> << >>,
      daily_trades    |-> 0,
      last_trade_date |-> 0 ]      \* 0 stands for None: no day has number 0

sl_atr_mult == 2
tp_atr_mult == 3

calculate_stop_loss(entry_price, atr, direction) ==
    IF direction = "long"
    THEN entry_price - (atr * sl_atr_mult)
    ELSE entry_price + (atr * sl_atr_mult)

calculate_take_profit(entry_price, atr, direction) ==
    IF direction = "long"
    THEN entry_price + (atr * tp_atr_mult)
    ELSE entry_price - (atr * tp_atr_mult)

\* Drawdown from the peak as a fraction.
get_current_drawdown(rm) ==
    IF rm.peak_capital = 0
    THEN <<0, 1>>
    ELSE <<Max(0, rm.peak_capital - rm.current_capital), rm.peak_capital>>

\* The drawdown test of can_open_position.
DrawdownExceeded(rm) ==
    RGeq(get_current_drawdown(rm), <<max_drawdown_percent, 100>>)

\* The open-position test of can_open_position.
MutOpenPositionsReachedStrict(rm) ==
    Len(rm.open_positions) > max_open_positions

OpenPositionsReached(rm) ==
    Len(rm.open_positions) >= max_open_positions

\* The daily counter after the date test of can_open_position.
DailyReset(rm, date) ==
    IF rm.last_trade_date # date
    THEN [rm EXCEPT !.daily_trades = 0, !.last_trade_date = date]
    ELSE rm

\* The gate without its open-position test.
MutGateSkipsOpenPositions(rm, date) ==
    IF DrawdownExceeded(rm)
    THEN [ok |-> FALSE, reason |-> "Max drawdown exceeded", rm |-> rm]
    ELSE LET rm1 == DailyReset(rm, date)
         IN  IF rm1.daily_trades >= max_daily_trades
             THEN [ok |-> FALSE, reason |-> "Daily trade limit reached", rm |-> rm1]
             ELSE IF rm1.current_capital * 2 < rm1.initial_capital
             THEN [ok |-> FALSE, reason |-> "Capital too low", rm |-> rm1]
             ELSE [ok |-> TRUE, reason |-> "OK", rm |-> rm1]

\* can_open_position: the checks in the code's order, each an early return.
\* Returns the answer, the reason and the RiskManager after the call (the
\* date test resets the daily counter as a side effect).
can_open_position(rm, date) ==
    IF DrawdownExceeded(rm)
    THEN [ok |-> FALSE, reason |-> "Max drawdown exceeded", rm |-> rm]
    ELSE IF OpenPositionsReached(rm)
    THEN [ok |-> FALSE, reason |-> "Max open positions reached", rm |-> rm]
    ELSE LET rm1 == DailyReset(rm, date)
         IN  IF rm1.daily_trades >= max_daily_trades
             THEN [ok |-> FALSE, reason |-> "Daily trade limit reached", rm |-> rm1]
             ELSE IF rm1.current_capital * 2 < rm1.initial_capital
             THEN [ok |-> FALSE, reason |-> "Capital too low", rm |-> rm1]
             ELSE [ok |-> TRUE, reason |-> "OK", rm |-> rm1]

\* add_position: no check of its own; appends and counts the trade.
add_position(rm, symbol, entry_price, quantity, stop_loss, take_profit, direction, now) ==
    LET position == [ symbol         |-> symbol,
                      entry_price    |-> entry_price,
                      quantity       |-> quantity,
                      stop_loss      |-> stop_loss,
                      take_profit    |-> take_profit,
                      direction      |-> direction,
                      entry_time     |-> now,
                      position_value |-> entry_price * quantity ]
    IN  [ rm  |-> [rm EXCEPT !.open_positions = Append(@, position),
                             !.daily_trades = @ + 1],
          ret |-> position ]

\* Index of the first open position of the symbol, 0 when there is none.
FirstIndex(open_positions, symbol) ==
    LET hits == {i \in 1..Len(open_positions) : open_positions[i].symbol = symbol}
    IN  IF hits = {} THEN 0 ELSE CHOOSE i \in hits : \A j \in hits : i <= j

RemoveAt(s, i) == SubSeq(s, 1, i - 1) \o SubSeq(s, i + 1, Len(s))

MutPnlUnsigned(position, exit_price) ==
    (exit_price - position.entry_price) * position.quantity

\* The signed profit of close_position.
Pnl(position, exit_price) ==
    IF position.direction = "long"
    THEN (exit_price - position.entry_price) * position.quantity
    ELSE (position.entry_price - exit_price) * position.quantity

MutPeakFollowsCapital(peak_capital, current_capital) == current_capital

\* The peak update of close_position.
NewPeak(peak_capital, current_capital) ==
    IF current_capital > peak_capital THEN current_capital ELSE peak_capital

MutCloseKeepsPosition(rm, symbol, exit_price, date) ==
    LET i == FirstIndex(rm.open_positions, symbol)
    IN  IF i = 0
        THEN [rm |-> rm, ret |-> None, raised |-> FALSE]
        ELSE LET position == rm.open_positions[i]
                 pnl == Pnl(position, exit_price)
                 capital == rm.current_capital + pnl
             IN  [ rm |-> [rm EXCEPT !.current_capital = capital,
                                     !.peak_capital = NewPeak(@, capital)],
                   ret |-> [position |-> position, exit_price |-> exit_price,
                            exit_time |-> date, pnl |-> pnl],
                   raised |-> FALSE ]

\* close_position: pops the first open position of the symbol, credits its
\* pnl to the capital, raises the peak.  pnl_pct divides by position_value:
\* with a zero value the call raises after the pop and before the credit.
close_position(rm, symbol, exit_price, date) ==
    LET i == FirstIndex(rm.open_positions, symbol)
    IN  IF i = 0
        THEN [rm |-> rm, ret |-> None, raised |-> FALSE]
        ELSE LET position == rm.open_positions[i]
                 popped == [rm EXCEPT !.open_positions = RemoveAt(@, i)]
                 pnl == Pnl(position, exit_price)
                 capital == rm.current_capital + pnl
             IN  IF position.position_value = 0
                 THEN [rm |-> popped, ret |-> None, raised |-> TRUE]
                 ELSE [ rm |-> [popped EXCEPT !.current_capital = capital,
                                              !.peak_capital = NewPeak(@, capital)],
                        ret |-> [position |-> position, exit_price |-> exit_price,
                                 exit_time |-> date, pnl |-> pnl],
                        raised |-> FALSE ]

---------------------------------------------------------------------------
(* Direct use of one RiskManager: any sequence of its public calls.        *)

InitRM ==
    /\ risk_manager = RiskManagerInit
    /\ today = 1
    /\ clock = 1
    /\ closed_trades = {}
    /\ ret = [op |-> "init"]
    /\ steps = 0
    /\ mode = "api"
    /\ dry_run = FALSE
    /\ pc = "api"
    /\ queue = << >>
    /\ iteration = 0
    /\ active_positions = EmptyDict
    /\ exchange = NoCalls
    /\ trades_db = << >>
    /\ signal = [at |-> <<0, "">>]
    /\ controller = [running |-> FALSE, paused |-> FALSE, thread |-> 0,
                     joining |-> FALSE]
    /\ bot_state = [status |-> "stopped", thread |-> 0]
    /\ threads = << >>
    /\ backtest = NoBacktest

RMCanOpen ==
    /\ steps < MaxOps
    /\ LET r == can_open_position(risk_manager, today)
       IN  /\ risk_manager' = r.rm
           /\ ret' = [op |-> "can_open_position", ok |-> r.ok, reason |-> r.reason]
    /\ steps' = steps + 1
    /\ UNCHANGED <<today, clock, closed_trades, ex_vars>>
    /\ UNCHANGED ctl_vars
    /\ UNCHANGED bt_vars

RMAdd ==
    /\ steps < MaxOps
    /\ \E symbol \in Symbols, direction \in Directions, quantity \in Quantities :
         LET entry_price == 100
             atr == 5
             r == add_position(risk_manager, symbol, entry_price, quantity,
                               calculate_stop_loss(entry_price, atr, direction),
                               calculate_take_profit(entry_price, atr, direction),
                               direction, clock)
         IN  /\ risk_manager' = r.rm
             /\ ret' = [op |-> "add_position", position |-> r.ret]
    /\ clock' = clock + 1
    /\ steps' = steps + 1
    /\ UNCHANGED <<today, closed_trades, ex_vars>>
    /\ UNCHANGED ctl_vars
    /\ UNCHANGED bt_vars

RMClose ==
    /\ steps < MaxOps
    /\ \E symbol \in Symbols, exit_price \in Prices :
         LET r == close_position(risk_manager, symbol, exit_price, today)
         IN  /\ risk_manager' = r.rm
             /\ ret' = [op |-> "close_position", symbol |-> symbol,
                        exit_price |-> exit_price, trade |-> r.ret]
             /\ closed_trades' = IF r.ret = None THEN closed_trades
                                 ELSE closed_trades \cup {r.ret}
    /\ steps' = steps + 1
    /\ UNCHANGED <<today, clock, ex_vars>>
    /\ UNCHANGED ctl_vars
    /\ UNCHANGED bt_vars

\* The wall-clock date changes.
Midnight ==
    /\ today < MaxDay
    /\ today' = today + 1
    /\ UNCHANGED <<risk_manager, clock, closed_trades, api_vars, ex_vars>>
    /\ UNCHANGED ctl_vars
    /\ UNCHANGED bt_vars

NextRM == RMCanOpen \/ RMAdd \/ RMClose \/ Midnight

SpecRM == InitRM /\ [][NextRM]_vars

---------------------------------------------------------------------------
(* Properties of the RiskManager.                                          *)

\* A step that is a call of can_open_position / close_position.
IsCanOpenCall == steps' # steps /\ ret'.op = "can_open_position"
IsCloseCall == steps' # steps /\ ret'.op = "close_position"

\* Positions opened today, as the gate counts them once the date is compared.
TodaysTradeCount(rm, date) ==
    IF rm.last_trade_date = date THEN rm.daily_trades ELSE 0

\* The four refusal conditions, read off the RiskState.
RefusalCondition(rm, date) ==
    \/ (rm.peak_capital - rm.current_capital) * 100
           >= max_drawdown_percent * rm.peak_capital
    \/ Len(rm.open_positions) >= max_open_positions
    \/ TodaysTradeCount(rm, date) >= max_daily_trades
    \/ 2 * rm.current_capital < rm.initial_capital

\* C6: can_open_position answers false, with a reason, exactly when the
\* drawdown has reached the maximum, or the open positions have reached
\* max_open_positions, or today's trade count has reached the daily cap, or
\* the capital is below half the initial capital; otherwise it answers true.
C6_CanOpenIffNoLimitHit ==
    [][ IsCanOpenCall =>
          /\ ret'.ok = ~RefusalCondition(risk_manager, today)
          /\ (ret'.reason = "OK") = ret'.ok ]_vars

\* C6 witness: a refusal by the daily cap alone has been returned.
C6_Witness ==
    /\ ret.op = "can_open_position"
    /\ ~ret.ok
    /\ ret.reason = "Daily trade limit reached"
    /\ risk_manager.current_capital = risk_manager.peak_capital
    /\ Len(risk_manager.open_positions) < max_open_positions

RECURSIVE SumPnl(_)
SumPnl(trades) ==
    IF trades = {} THEN 0
    ELSE LET t == CHOOSE x \in trades : TRUE
         IN  t.pnl + SumPnl(trades \ {t})

\* Profit realized by the closes of the given day.
DailyRealizedPnl(date) == SumPnl({t \in closed_trades : t.exit_time = date})

\* The daily-loss limit the tests configure (risk.max_daily_loss = 0.05).
max_daily_loss_percent == 5

\* C7: a new position is refused when the loss realized today exceeds
\* max_daily_loss (5%) of the balance the day started with, even with
\* drawdown, open positions and daily trade count within their limits.
C7_DailyLossRefuses ==
    LET daily_pnl == DailyRealizedPnl(today)
        balance == risk_manager.current_capital - daily_pnl
    IN  (ret.op = "can_open_position"
            /\ (-daily_pnl) * 100 > max_daily_loss_percent * balance)
        => ~ret.ok

\* C8: peak_capital never decreases over add_position and close_position
\* calls, and it is never below current_capital.
C8_PeakMonotone ==
    /\ [][risk_manager'.peak_capital >= risk_manager.peak_capital]_vars
    /\ [](risk_manager.peak_capital >= risk_manager.current_capital)

\* C8 witness: the peak was raised by a winning close and a later losing
\* close left the capital below it.
C8_Witness ==
    /\ risk_manager.peak_capital > risk_manager.initial_capital
    /\ risk_manager.current_capital < risk_manager.peak_capital
    /\ ret.op = "close_position"
    /\ ret.trade # None

C10_CloseAtMostOnce ==
    /\ [][ (IsCloseCall /\ FirstIndex(risk_manager.open_positions, ret'.symbol) = 0) =>
             /\ ret'.trade = None
             /\ risk_manager' = risk_manager
             /\ closed_trades' = closed_trades ]_vars
    /\ [](\A t \in closed_trades :
            /\ \A i \in 1..Len(risk_manager.open_positions) :
                   risk_manager.open_positions[i] # t.position
            /\ \A u \in closed_trades : u.position = t.position => u = t)

\* C10 witness: a second close of a symbol whose position was already closed
\* has returned None.
C10_Witness ==
    /\ ret.op = "close_position"
    /\ ret.trade = None
    /\ \E t \in closed_trades : t.position.symbol = ret.symbol

---------------------------------------------------------------------------
(* TradingExecutor                                                         *)

\* Longest run of the loop explored, in iterations.
MaxIter == 2
\* trading.entry.ml_probability_min (0.60), in percent.
ml_threshold == 60
\* trading.entry.sentiment_min (-0.1), in hundredths.
sentiment_threshold == -10
\* risk.risk_per_trade (0.01) and risk.max_position_size (0.1), in percent.
risk_per_trade_percent == 1
max_position_size_percent == 10

\* What analyze_market can report.
Confidences == {50, 60}
Sentiments == {-20, -10}
MlSignals == {"UP", "DOWN"}
\* predict_single: the class the binary model predicts, 1 when the price is
\* expected to rise by more than the threshold, 0 otherwise.
MlPredictions == {0, 1}
\* analyze_market: ml_signal = "UP" if ml_prediction == 1 else "DOWN"
ml_signal_of(ml_prediction) == IF ml_prediction = 1 THEN "UP" ELSE "DOWN"
AnalysisPrices == {100}
AnalysisAtrs == {5}
\* The order the loops visit symbols in.
SymbolOrder == <<"BTC/USDT", "ETH/USDT">>

Abs(x) == IF x < 0 THEN -x ELSE x

\* round() of the fraction n/d to an integer, halves to the even neighbour.
RoundHalfEven(n, d) ==
    LET q == n \div d
        r == n % d
    IN  IF 2 * r < d THEN q
        ELSE IF 2 * r > d THEN q + 1
        ELSE IF q % 2 = 0 THEN q ELSE q + 1

RMin(a, b) == IF RLess(b, a) THEN b ELSE a

\* The sizing without the maximum-position cap.
MutSizeUncapped(rm, entry_price, stop_loss) ==
    LET risk_amount == <<rm.current_capital * risk_per_trade_percent, 100>>
        price_risk == Abs(entry_price - stop_loss)
        position_size == IF price_risk = 0
                         THEN <<rm.current_capital * 1, 100>>
                         ELSE <<risk_amount[1] * entry_price, risk_amount[2] * price_risk>>
    IN  [position_size |-> position_size,
         quantity |-> <<position_size[1], position_size[2] * entry_price>>]

\* _fixed_position_size: the notional size and the quantity, as fractions.
fixed_position_size(rm, entry_price, stop_loss) ==
    LET risk_amount == <<rm.current_capital * risk_per_trade_percent, 100>>
        price_risk == Abs(entry_price - stop_loss)
        position_size == IF price_risk = 0
                         THEN <<rm.current_capital * 1, 100>>
                         ELSE <<risk_amount[1] * entry_price, risk_amount[2] * price_risk>>
        max_position == <<rm.current_capital * max_position_size_percent, 100>>
        capped == RMin(position_size, max_position)
    IN  [position_size |-> capped, quantity |-> <<capped[1], capped[2] * entry_price>>]

\* _round_quantity: to the market's amount precision, here two decimals,
\* which is the unit quantities are counted in.
round_quantity(quantity) == RoundHalfEven(quantity[1], quantity[2])

\* dict operations on active_positions
DictSet(d, k, v) == [x \in DOMAIN d \cup {k} |-> IF x = k THEN v ELSE d[x]]
DictDel(d, k) == [x \in DOMAIN d \ {k} |-> d[x]]
RECURSIVE KeysFrom(_, _)
KeysFrom(order, d) ==
    IF order = << >> THEN << >>
    ELSE IF Head(order) \in DOMAIN d
         THEN <<Head(order)>> \o KeysFrom(Tail(order), d)
         ELSE KeysFrom(Tail(order), d)
\* list(d.keys())
Keys(d) == KeysFrom(SymbolOrder, d)

\* The executor's state as one value, for the methods below.
Ex == [ rm |-> risk_manager, active |-> active_positions, exchange |-> NoCalls,
        db |-> trades_db, now |-> iteration ]

\* The gate without its sentiment test.
MutGateIgnoresSentiment(analysis, rm, active, date) ==
    IF analysis.ml_confidence < ml_threshold
    THEN [should_trade |-> FALSE, reason |-> "ML confidence too low",
          direction |-> "None", rm |-> rm]
    ELSE LET r == can_open_position(rm, date)
         IN  IF ~r.ok
             THEN [should_trade |-> FALSE, reason |-> "Risk check failed",
                   direction |-> "None", rm |-> r.rm]
             ELSE IF analysis.symbol \in DOMAIN active
             THEN [should_trade |-> FALSE, reason |-> "Already have open position",
                   direction |-> "None", rm |-> r.rm]
             ELSE [should_trade |-> TRUE, reason |-> "All checks passed",
                   direction |-> IF analysis.ml_signal = "UP" THEN "long" ELSE "short",
                   rm |-> r.rm]

\* generate_signal: the gate, each test an early return.
generate_signal(analysis, rm, active, date) ==
    IF analysis.ml_confidence < ml_threshold
    THEN [should_trade |-> FALSE, reason |-> "ML confidence too low",
          direction |-> "None", rm |-> rm]
    ELSE IF analysis.sentiment_score < sentiment_threshold
    THEN [should_trade |-> FALSE, reason |-> "Sentiment too negative",
          direction |-> "None", rm |-> rm]
    ELSE LET r == can_open_position(rm, date)
         IN  IF ~r.ok
             THEN [should_trade |-> FALSE, reason |-> "Risk check failed",
                   direction |-> "None", rm |-> r.rm]
             ELSE IF analysis.symbol \in DOMAIN active
             THEN [should_trade |-> FALSE, reason |-> "Already have open position",
                   direction |-> "None", rm |-> r.rm]
             ELSE [should_trade |-> TRUE, reason |-> "All checks passed",
                   direction |-> IF analysis.ml_signal = "UP" THEN "long" ELSE "short",
                   rm |-> r.rm]

\* execute_trade that goes on after a failed market order.
MutExecuteTradeIgnoresFailure(ex, analysis, direction, is_dry, env) ==
    LET symbol == analysis.symbol
        current_price == analysis.price
        stop_loss == calculate_stop_loss(current_price, analysis.atr, direction)
        take_profit == calculate_take_profit(current_price, analysis.atr, direction)
        size == fixed_position_size(ex.rm, current_price, stop_loss)
        quantity == round_quantity(size.quantity)
        ex1 == IF is_dry THEN ex
               ELSE IF ~env.order_ok
                    THEN [ex EXCEPT !.exchange.create_order = @ + 1]
                    ELSE [ex EXCEPT !.exchange.create_order = @ + 3]
        added == add_position(ex1.rm, symbol, current_price, quantity,
                              stop_loss, take_profit, direction, ex1.now)
        ex2 == [ex1 EXCEPT !.rm = added.rm]
        row == [symbol |-> symbol, status |-> "open", exit_reason |-> "None"]
        data == [ position |-> added.ret,
                  trade_id |-> Len(ex2.db) + 1,
                  status |-> IF is_dry THEN "simulated" ELSE "filled",
                  sl_order_id |-> ~is_dry /\ env.protective_ok,
                  tp_order_id |-> ~is_dry /\ env.protective_ok ]
    IN  IF ~env.log_ok
        THEN [ex |-> ex2, ret |-> None, raised |-> TRUE]
        ELSE [ ex |-> [ex2 EXCEPT !.db = Append(@, row),
                                  !.active = DictSet(@, symbol, data)],
               ret |-> data, raised |-> FALSE ]

\* execute_trade.  env: the outcome of the market order, of the two
\* protective orders (placed or refused together) and of
\* TradeLogger.log_trade_open.
execute_trade(ex, analysis, direction, is_dry, env) ==
    LET symbol == analysis.symbol
        current_price == analysis.price
        stop_loss == calculate_stop_loss(current_price, analysis.atr, direction)
        take_profit == calculate_take_profit(current_price, analysis.atr, direction)
        size == fixed_position_size(ex.rm, current_price, stop_loss)
        quantity == round_quantity(size.quantity)
        \* create_order for the market order, then one for each protective order
        ex1 == IF is_dry THEN ex
               ELSE IF ~env.order_ok
                    THEN [ex EXCEPT !.exchange.create_order = @ + 1]
                    ELSE [ex EXCEPT !.exchange.create_order = @ + 3]
        added == add_position(ex1.rm, symbol, current_price, quantity,
                              stop_loss, take_profit, direction, ex1.now)
        ex2 == [ex1 EXCEPT !.rm = added.rm]
        trade_id == Len(ex2.db) + 1
        row == [symbol |-> symbol, status |-> "open", exit_reason |-> "None"]
        data == [ position |-> added.ret,
                  trade_id |-> trade_id,
                  status |-> IF is_dry THEN "simulated" ELSE "filled",
                  sl_order_id |-> ~is_dry /\ env.protective_ok,
                  tp_order_id |-> ~is_dry /\ env.protective_ok ]
    IN  IF ~is_dry /\ ~env.order_ok
        THEN [ex |-> ex1, ret |-> None, raised |-> FALSE]
        ELSE IF ~env.log_ok
        THEN [ex |-> ex2, ret |-> None, raised |-> TRUE]
        ELSE [ ex |-> [ex2 EXCEPT !.db = Append(@, row),
                                  !.active = DictSet(@, symbol, data)],
               ret |-> data, raised |-> FALSE ]

\* TradingExecutor.close_position.  exit_price 0 stands for None (fetch the
\* price).  env: the ticker (0: the fetch raises), the outcome of the
\* closing order and of TradeLogger.log_trade_close.
ex_close_position(ex, symbol, exit_price, is_dry, env, date) ==
    IF symbol \notin DOMAIN ex.active
    THEN [ex |-> ex, ret |-> None, raised |-> FALSE]
    ELSE IF exit_price = 0 /\ env.ticker = 0
    THEN [ex |-> ex, ret |-> None, raised |-> TRUE]
    ELSE LET position_data == ex.active[symbol]
             price == IF exit_price = 0 THEN env.ticker ELSE exit_price
             ex1 == IF is_dry THEN ex
                    ELSE [ex EXCEPT !.exchange.create_order = @ + 1]
             ex2 == IF is_dry THEN ex1
                    ELSE [ex1 EXCEPT !.exchange.cancel_order =
                              @ + (IF position_data.sl_order_id THEN 1 ELSE 0)
                                + (IF position_data.tp_order_id THEN 1 ELSE 0)]
             r == close_position(ex2.rm, symbol, price, date)
             ex3 == [ex2 EXCEPT !.rm = r.rm]
             logs == position_data.trade_id # 0 /\ r.ret # None
             ex4 == IF logs
                    THEN [ex3 EXCEPT !.db[position_data.trade_id] =
                              [@ EXCEPT !.status = "closed",
                                        !.exit_reason = IF ~is_dry THEN "manual"
                                                        ELSE "simulated"]]
                    ELSE ex3
         IN  IF ~is_dry /\ ~env.order_ok
             THEN [ex |-> ex1, ret |-> None, raised |-> FALSE]
             ELSE IF r.raised
             THEN [ex |-> ex3, ret |-> None, raised |-> TRUE]
             ELSE IF logs /\ ~env.log_ok
             THEN [ex |-> ex3, ret |-> None, raised |-> TRUE]
             ELSE [ ex |-> [ex4 EXCEPT !.active = DictDel(@, symbol)],
                    ret |-> r.ret, raised |-> FALSE ]

\* The exit test of check_positions: the stop-loss is tested first.
close_reason(position, current_price) ==
    IF position.direction = "long"
    THEN IF current_price <= position.stop_loss THEN "stop_loss"
         ELSE IF current_price >= position.take_profit THEN "take_profit"
         ELSE "None"
    ELSE IF current_price >= position.stop_loss THEN "stop_loss"
         ELSE IF current_price <= position.take_profit THEN "take_profit"
         ELSE "None"

\* The body of check_positions for one symbol.  It calls
\* close_position(symbol, current_price): dry_run keeps its default, False.
\* Whatever is raised is caught and the loop goes to the next symbol.
check_position(ex, symbol, env, date) ==
    IF env.ticker = 0
    THEN ex
    ELSE IF close_reason(ex.active[symbol].position, env.ticker) # "None"
         THEN ex_close_position(ex, symbol, env.ticker, FALSE, env, date).ex
         ELSE ex

---------------------------------------------------------------------------
(* The trading loop: run_trading_loop of main.py ("cli"), which visits     *)
(* every configured symbol and closes the positions on KeyboardInterrupt,  *)
(* and the loop thread of the web control ("web"), which calls             *)
(* analyze_and_trade() for the default symbol with dry_run False.          *)

LoopSymbols == IF mode = "web" THEN <<"BTC/USDT">> ELSE SymbolOrder

Init ==
    /\ risk_manager = RiskManagerInit
    /\ today = 1
    /\ clock = 1
    /\ closed_trades = {}
    /\ ret = [op |-> "init"]
    /\ steps = 0
    /\ mode \in {"cli", "web"}
    /\ dry_run \in BOOLEAN
    /\ mode = "web" => dry_run = FALSE
    /\ pc = "sleep"
    /\ queue = << >>
    /\ iteration = 0
    /\ active_positions = EmptyDict
    /\ exchange = NoCalls
    /\ trades_db = << >>
    /\ signal = [at |-> <<0, "">>]
    /\ controller = [running |-> FALSE, paused |-> FALSE, thread |-> 0,
                     joining |-> FALSE]
    /\ bot_state = [status |-> "stopped", thread |-> 0]
    /\ threads = << >>
    /\ backtest = NoBacktest

\* Writes an executor state back to the variables.
Commit(ex) ==
    /\ risk_manager' = ex.rm
    /\ active_positions' = ex.active
    /\ exchange' = ex.exchange
    /\ trades_db' = ex.db

\* The top of the while loop: the next iteration starts with the position
\* check when there are active positions.
StartIteration ==
    /\ pc = "sleep"
    /\ iteration < MaxIter
    /\ iteration' = iteration + 1
    /\ IF DOMAIN active_positions # {}
       THEN pc' = "check" /\ queue' = Keys(active_positions)
       ELSE pc' = "analyze" /\ queue' = LoopSymbols
    /\ exchange' = NoCalls
    /\ UNCHANGED <<rm_vars, api_vars, mode, dry_run, active_positions,
                   trades_db, signal>>
    /\ UNCHANGED ctl_vars
    /\ UNCHANGED bt_vars

\* check_positions, one symbol of its for-loop.
CheckPosition ==
    /\ pc = "check"
    /\ \E ticker \in Prices \cup {0}, order_ok \in BOOLEAN, log_ok \in BOOLEAN :
         Commit(check_position(Ex, Head(queue),
                               [ticker |-> ticker, order_ok |-> order_ok,
                                log_ok |-> log_ok], today))
    /\ IF Tail(queue) = << >>
       THEN pc' = "analyze" /\ queue' = LoopSymbols
       ELSE pc' = "check" /\ queue' = Tail(queue)
    /\ UNCHANGED <<today, clock, closed_trades, api_vars, mode, dry_run, iteration,
                   signal>>
    /\ UNCHANGED ctl_vars
    /\ UNCHANGED bt_vars

\* analyze_market raises (no data, the model fails): the symbol is skipped.
AnalysisFails ==
    /\ pc = "analyze"
    /\ IF Tail(queue) = << >>
       THEN pc' = "sleep" /\ queue' = << >>
       ELSE pc' = "analyze" /\ queue' = Tail(queue)
    /\ exchange' = NoCalls
    /\ UNCHANGED <<rm_vars, api_vars, mode, dry_run, iteration, active_positions,
                   trades_db, signal>>
    /\ UNCHANGED ctl_vars
    /\ UNCHANGED bt_vars

\* The per-symbol body of the loop: analyze_market, generate_signal and, when
\* the gate accepts, execute_trade.
AnalyzeSymbol ==
    /\ pc = "analyze"
    /\ \E price \in AnalysisPrices, atr \in AnalysisAtrs,
          ml_prediction \in MlPredictions,
          ml_confidence \in Confidences, sentiment_score \in Sentiments,
          order_ok \in BOOLEAN, protective_ok \in BOOLEAN, log_ok \in BOOLEAN :
         LET analysis == [ symbol |-> Head(queue), price |-> price, atr |-> atr,
                           ml_signal |-> ml_signal_of(ml_prediction),
                           ml_confidence |-> ml_confidence,
                           sentiment_score |-> sentiment_score ]
             gate == generate_signal(analysis, risk_manager, active_positions, today)
             ex1 == [Ex EXCEPT !.rm = gate.rm]
             env == [order_ok |-> order_ok, protective_ok |-> protective_ok,
                     log_ok |-> log_ok]
         IN  /\ signal' = [ at |-> <<iteration, analysis.symbol>>,
                            ml_confidence |-> ml_confidence,
                            sentiment_score |-> sentiment_score,
                            should_trade |-> gate.should_trade,
                            reason |-> gate.reason,
                            direction |-> gate.direction ]
             /\ IF gate.should_trade
                THEN Commit(execute_trade(ex1, analysis, gate.direction, dry_run, env).ex)
                ELSE Commit(ex1)
    /\ IF Tail(queue) = << >>
       THEN pc' = "sleep" /\ queue' = << >>
       ELSE pc' = "analyze" /\ queue' = Tail(queue)
    /\ UNCHANGED <<today, clock, closed_trades, api_vars, mode, dry_run, iteration>>
    /\ UNCHANGED ctl_vars
    /\ UNCHANGED bt_vars

\* Ctrl+C in the command-line loop: the handler closes what is active.
KeyboardInterrupt ==
    /\ mode = "cli"
    /\ pc \in {"check", "analyze", "sleep"}
    /\ IF DOMAIN active_positions # {}
       THEN pc' = "stopping" /\ queue' = Keys(active_positions)
       ELSE pc' = "stopped" /\ queue' = << >>
    /\ exchange' = NoCalls
    /\ UNCHANGED <<rm_vars, api_vars, mode, dry_run, iteration, active_positions,
                   trades_db, signal>>
    /\ UNCHANGED ctl_vars
    /\ UNCHANGED bt_vars

\* The handler's for-loop: close_position(symbol, dry_run=dry_run).  What
\* close_position raises leaves the handler and ends the loop.
CloseOnStop ==
    /\ pc = "stopping"
    /\ \E ticker \in Prices \cup {0}, order_ok \in BOOLEAN, log_ok \in BOOLEAN :
         LET r == ex_close_position(Ex, Head(queue), 0, dry_run,
                                    [ticker |-> ticker, order_ok |-> order_ok,
                                     log_ok |-> log_ok], today)
         IN  /\ Commit(r.ex)
             /\ IF r.raised \/ Tail(queue) = << >>
                THEN pc' = "stopped" /\ queue' = << >>
                ELSE pc' = "stopping" /\ queue' = Tail(queue)
    /\ UNCHANGED <<today, clock, closed_trades, api_vars, mode, dry_run, iteration,
                   signal>>
    /\ UNCHANGED ctl_vars
    /\ UNCHANGED bt_vars

\* The stop (or pause) request of the web control: the status changes and
\* the loop thread leaves its while loop at the next test.
ApiStop ==
    /\ mode = "web"
    /\ pc = "sleep"
    /\ pc' = "stopped"
    /\ exchange' = NoCalls
    /\ UNCHANGED <<rm_vars, api_vars, mode, dry_run, queue, iteration,
                   active_positions, trades_db, signal>>
    /\ UNCHANGED ctl_vars
    /\ UNCHANGED bt_vars

Next ==
    \/ StartIteration
    \/ CheckPosition
    \/ AnalysisFails
    \/ AnalyzeSymbol
    \/ KeyboardInterrupt
    \/ CloseOnStop
    \/ ApiStop

Spec == Init /\ [][Next]_vars

---------------------------------------------------------------------------
(* Properties of the trading loop.                                         *)

\* C1: when the loop runs with dry_run=True, no step of it, entry, exit
\* fired by the stop-loss/take-profit check or forced close on interruption,
\* calls create_order or cancel_order on the exchange.
C1_DryRunSubmitsNothing ==
    dry_run => exchange.create_order = 0 /\ exchange.cancel_order = 0

\* C2: after any sequence of trading iterations RiskManager.open_positions
\* never holds two positions with the same symbol.
C2_OnePositionPerSymbol ==
    \A i, j \in 1..Len(risk_manager.open_positions) :
        i # j => risk_manager.open_positions[i].symbol
                   # risk_manager.open_positions[j].symbol

\* C3: once the loop has been stopped, by KeyboardInterrupt or by a stop
\* request of the web control, active_positions and
\* RiskManager.open_positions are empty, whatever the price fetch and the
\* closing orders did.
C3_StoppedMeansFlat ==
    pc = "stopped" =>
        DOMAIN active_positions = {} /\ risk_manager.open_positions = << >>

\* A step of the loop that ran the gate.
GateStep == signal' # signal

\* C5: generate_signal accepts a trade if and only if none of these holds:
\* ML confidence < ml_threshold, sentiment score < sentiment_threshold,
\* can_open_position() is false, a position already exists for the symbol;
\* and the loop opens a position only in a step whose gate accepted, for
\* the symbol the gate was asked about.
C5_GateAcceptsIffNoRejection ==
    [][ /\ GateStep =>
            (signal'.should_trade <=>
                ~ \/ signal'.ml_confidence < ml_threshold
                  \/ signal'.sentiment_score < sentiment_threshold
                  \/ ~can_open_position(risk_manager, today).ok
                  \/ signal'.at[2] \in DOMAIN active_positions)
        /\ \/ Len(risk_manager'.open_positions) > Len(risk_manager.open_positions)
           \/ DOMAIN active_positions' \ DOMAIN active_positions # {}
           => /\ GateStep
              /\ signal'.should_trade
              /\ Len(risk_manager'.open_positions)
                    = Len(risk_manager.open_positions) + 1
              /\ risk_manager'.open_positions[Len(risk_manager'.open_positions)].symbol
                    = signal'.at[2]
              /\ DOMAIN active_positions' \ DOMAIN active_positions
                    \subseteq {signal'.at[2]}
      ]_vars

\* The gate accepted and the loop opened the position in this iteration,
\* after an earlier iteration in which the gate refused something.
C5_Witness ==
    /\ iteration > 0
    /\ signal.at[1] = iteration
    /\ signal.should_trade
    /\ signal.at[2] \in DOMAIN active_positions
    /\ active_positions[signal.at[2]].position.entry_time = iteration
    /\ signal.ml_confidence >= ml_threshold
    /\ signal.sentiment_score >= sentiment_threshold

\* The predictions of the model that analyze_market and generate_signal
\* turn into the given direction.
PredictionsFor(direction) ==
    { p \in MlPredictions :
        generate_signal([symbol |-> "", ml_signal |-> ml_signal_of(p),
                         ml_confidence |-> ml_threshold,
                         sentiment_score |-> sentiment_threshold],
                        RiskManagerInit, EmptyDict, 1).direction = direction }

\* C11: the executor opens a position only on a LONG or SHORT signal: when
\* the model's prediction is neutral / HOLD (0), no position is opened,
\* whatever the confidence and sentiment, so no position the loop opens
\* has a direction that prediction 0 is turned into.
C11_NoPositionOnHold ==
    [][ \A symbol \in DOMAIN active_positions' \ DOMAIN active_positions :
          0 \notin PredictionsFor(active_positions'[symbol].position.direction)
      ]_vars

\* C12: every closed trade the executor persists carries an exit reason that
\* names the transition that closed the position: stop_loss or take_profit
\* when the position check fired the close, manual for the close on
\* shutdown (and never a value outside stop_loss, take_profit, period_end,
\* manual).
C12_ExitReasonNamesTransition ==
    [][ \A i \in 1..Len(trades_db) :
          trades_db[i].status = "open" /\ trades_db'[i].status = "closed"
          => IF pc = "check"
             THEN trades_db'[i].exit_reason \in {"stop_loss", "take_profit"}
             ELSE trades_db'[i].exit_reason = "manual" ]_vars

\* A step of the loop whose gate accepted and whose market order failed:
\* a live entry with a single create_order call (a placed order is followed
\* by the two protective orders).
FailedEntryStep ==
    GateStep /\ signal'.should_trade /\ ~dry_run /\ exchange'.create_order = 1

\* C13: if the market-order submission in execute_trade fails, the
\* intended position is recorded nowhere: RiskManager.open_positions,
\* daily_trades and capital stay as the gate left them, active_positions
\* and the trade log are unchanged, and no second submission is made.
C13_FailedOrderRecordsNothing ==
    [][ FailedEntryStep
          => /\ risk_manager' = can_open_position(risk_manager, today).rm
             /\ risk_manager'.open_positions = risk_manager.open_positions
             /\ risk_manager'.current_capital = risk_manager.current_capital
             /\ active_positions' = active_positions
             /\ trades_db' = trades_db
             /\ exchange' = [create_order |-> 1, cancel_order |-> 0] ]_vars

\* The gate has accepted a symbol, one order was submitted and failed, and
\* the symbol has no position.
C13_Witness ==
    /\ iteration > 0
    /\ signal.at[1] = iteration
    /\ signal.should_trade
    /\ ~dry_run
    /\ exchange.create_order = 1
    /\ signal.at[2] \notin DOMAIN active_positions
    /\ \A i \in 1..Len(risk_manager.open_positions) :
          risk_manager.open_positions[i].symbol # signal.at[2]

---------------------------------------------------------------------------
(* Position sizing: RiskManager.calculate_position_size with the default   *)
(* method, called on risk managers of several capitals.  The sizing is     *)
(* homogeneous, so capital and prices are plain numbers here.              *)

\* Largest price of the grid the sizing is called on.
MaxSizePrice == 8
\* The capitals the risk managers are constructed with.
Capitals == {0, 1, 1000, 9850, 10000}
\* (entry_price, stop_loss): the grid, and entry 40 with stops 39 and 40.
SizeInputs == ((0..MaxSizePrice) \X (0..MaxSizePrice)) \cup {<<40, 39>>, <<40, 40>>}

\* RiskManager(initial_capital)
RiskManagerOf(capital) ==
    [RiskManagerInit EXCEPT !.initial_capital = capital,
                            !.current_capital = capital,
                            !.peak_capital = capital]

\* The sizing without the fallback for a zero price risk: the division by
\* price_risk / entry_price raises.
MutSizeZeroRiskRaises(rm, entry_price, stop_loss) ==
    IF entry_price = 0 \/ entry_price = stop_loss
    THEN [raised |-> TRUE, position_size |-> None, quantity |-> None]
    ELSE LET r == fixed_position_size(rm, entry_price, stop_loss)
         IN  [raised |-> FALSE, position_size |-> r.position_size,
              quantity |-> r.quantity]

\* calculate_position_size(entry_price, stop_loss, method='fixed'): both
\* paths of _fixed_position_size divide by entry_price.
calculate_position_size(rm, entry_price, stop_loss) ==
    IF entry_price = 0
    THEN [raised |-> TRUE, position_size |-> None, quantity |-> None]
    ELSE LET r == fixed_position_size(rm, entry_price, stop_loss)
         IN  [raised |-> FALSE, position_size |-> r.position_size,
              quantity |-> r.quantity]

InitSize ==
    /\ \E capital \in Capitals : risk_manager = RiskManagerOf(capital)
    /\ today = 1
    /\ clock = 1
    /\ closed_trades = {}
    /\ ret = [op |-> "init"]
    /\ steps = 0
    /\ mode = "api"
    /\ dry_run = FALSE
    /\ pc = "api"
    /\ queue = << >>
    /\ iteration = 0
    /\ active_positions = EmptyDict
    /\ exchange = NoCalls
    /\ trades_db = << >>
    /\ signal = [at |-> <<0, "">>]
    /\ controller = [running |-> FALSE, paused |-> FALSE, thread |-> 0,
                     joining |-> FALSE]
    /\ bot_state = [status |-> "stopped", thread |-> 0]
    /\ threads = << >>
    /\ backtest = NoBacktest

RMSize ==
    /\ \E input \in SizeInputs :
         LET r == calculate_position_size(risk_manager, input[1], input[2])
         IN  ret' = [op |-> "calculate_position_size", entry_price |-> input[1],
                     stop_loss |-> input[2], raised |-> r.raised,
                     position_size |-> r.position_size, quantity |-> r.quantity]
    /\ UNCHANGED <<rm_vars, steps, ex_vars, ctl_vars>>
    /\ UNCHANGED bt_vars

NextSize == RMSize

SpecSize == InitSize /\ [][NextSize]_vars

IsSizeCall == ret.op = "calculate_position_size"
REq(a, b) == a[1] * b[2] = b[1] * a[2]
RLeq(a, b) == ~RLess(b, a)
RTimes(a, k) == <<a[1] * k, a[2]>>
\* capital * max_position_size
MaxPosition == <<risk_manager.current_capital * max_position_size_percent, 100>>
\* capital * risk_per_trade / (|entry - stop| / entry)
RiskNotional ==
    <<risk_manager.current_capital * risk_per_trade_percent * ret.entry_price,
      100 * Abs(ret.entry_price - ret.stop_loss)>>

---------------------------------------------------------------------------
(* The controls: BotController (start, stop, pause, resume and its loop    *)
(* thread _run_bot) and the control endpoints of app.py (api_start,        *)
(* api_stop, api_pause, the connect handler and the loop thread api_start  *)
(* spawns).  A loop thread is at "test" (the while condition),             *)
(* "iteration", "sleep" or "done"; a thread of app.py starts at "born",    *)
(* before it has written the status.  Controller calls come one after the  *)
(* other: none is made while stop() waits in join.                         *)

\* Most loop threads ever started in a run.
MaxThreads == 3

InitCtl ==
    /\ risk_manager = RiskManagerInit
    /\ today = 1
    /\ clock = 1
    /\ closed_trades = {}
    /\ ret = [op |-> "init"]
    /\ steps = 0
    /\ mode = "control"
    /\ dry_run = FALSE
    /\ pc = "control"
    /\ queue = << >>
    /\ iteration = 0
    /\ active_positions = EmptyDict
    /\ exchange = NoCalls
    /\ trades_db = << >>
    /\ signal = [at |-> <<0, "">>]
    /\ controller = [running |-> FALSE, paused |-> FALSE, thread |-> 0,
                     joining |-> FALSE]
    /\ bot_state = [status |-> "stopped", thread |-> 0]
    /\ threads = << >>
    /\ backtest = NoBacktest

\* Thread.is_alive() of thread i, 0 being None.
is_alive(i) == i # 0 /\ threads[i].pc # "done"

\* threads with thread i moved to place p
Moved(i, p) == [threads EXCEPT ![i].pc = p]

\* BotController.start
start ==
    /\ ~controller.joining
    /\ ~controller.running
    /\ Len(threads) < MaxThreads
    /\ threads' = Append(threads, [owner |-> "controller", pc |-> "test"])
    /\ controller' = [controller EXCEPT !.running = TRUE, !.paused = FALSE,
                                        !.thread = Len(threads) + 1]
    /\ UNCHANGED <<rm_vars, api_vars, ex_vars, bot_state>>
    /\ UNCHANGED bt_vars

\* BotController.stop, up to the call of join.
stop ==
    /\ ~controller.joining
    /\ controller.running
    /\ controller' = [controller EXCEPT !.running = FALSE, !.paused = FALSE,
                                        !.joining = is_alive(controller.thread)]
    /\ UNCHANGED <<rm_vars, api_vars, ex_vars, bot_state, threads>>
    /\ UNCHANGED bt_vars

\* join returns because the thread has ended.
JoinReturns ==
    /\ controller.joining
    /\ ~is_alive(controller.thread)
    /\ controller' = [controller EXCEPT !.joining = FALSE]
    /\ UNCHANGED <<rm_vars, api_vars, ex_vars, bot_state, threads>>
    /\ UNCHANGED bt_vars

\* join(timeout=5) returns because five seconds have passed: the thread is
\* still inside run_iteration.
JoinTimesOut ==
    /\ controller.joining
    /\ threads[controller.thread].pc = "iteration"
    /\ controller' = [controller EXCEPT !.joining = FALSE]
    /\ UNCHANGED <<rm_vars, api_vars, ex_vars, bot_state, threads>>
    /\ UNCHANGED bt_vars

\* BotController.pause
pause ==
    /\ ~controller.joining
    /\ controller.running
    /\ ~controller.paused
    /\ controller' = [controller EXCEPT !.paused = TRUE]
    /\ UNCHANGED <<rm_vars, api_vars, ex_vars, bot_state, threads>>
    /\ UNCHANGED bt_vars

\* BotController.resume
resume ==
    /\ ~controller.joining
    /\ controller.running
    /\ controller.paused
    /\ controller' = [controller EXCEPT !.paused = FALSE]
    /\ UNCHANGED <<rm_vars, api_vars, ex_vars, bot_state, threads>>
    /\ UNCHANGED bt_vars

\* _run_bot: the while test and the test of paused.
RunBotTest ==
    /\ \E i \in 1..Len(threads) :
         /\ threads[i].owner = "controller"
         /\ threads[i].pc = "test"
         /\ threads' = Moved(i, IF ~controller.running THEN "done"
                                ELSE IF ~controller.paused THEN "iteration"
                                ELSE "sleep")
    /\ UNCHANGED <<rm_vars, api_vars, ex_vars, controller, bot_state>>
    /\ UNCHANGED bt_vars

\* _run_bot: bot.run_iteration() returns.
RunBotIteration ==
    /\ \E i \in 1..Len(threads) :
         /\ threads[i].owner = "controller"
         /\ threads[i].pc = "iteration"
         /\ threads' = Moved(i, "sleep")
    /\ UNCHANGED <<rm_vars, api_vars, ex_vars, controller, bot_state>>
    /\ UNCHANGED bt_vars

\* _run_bot: bot.run_iteration() raises, the handler clears running and the
\* thread ends.
RunBotRaises ==
    /\ \E i \in 1..Len(threads) :
         /\ threads[i].owner = "controller"
         /\ threads[i].pc = "iteration"
         /\ threads' = Moved(i, "done")
    /\ controller' = [controller EXCEPT !.running = FALSE]
    /\ UNCHANGED <<rm_vars, api_vars, ex_vars, bot_state>>
    /\ UNCHANGED bt_vars

\* _run_bot: time.sleep(5) is over.
RunBotSleep ==
    /\ \E i \in 1..Len(threads) :
         /\ threads[i].owner = "controller"
         /\ threads[i].pc = "sleep"
         /\ threads' = Moved(i, "test")
    /\ UNCHANGED <<rm_vars, api_vars, ex_vars, controller, bot_state>>
    /\ UNCHANGED bt_vars

\* api_start: refuses when the status is 'running', else starts a thread;
\* the status is written by that thread.
api_start ==
    /\ bot_state.status # "running"
    /\ Len(threads) < MaxThreads
    /\ threads' = Append(threads, [owner |-> "web", pc |-> "born"])
    /\ bot_state' = [bot_state EXCEPT !.thread = Len(threads) + 1]
    /\ UNCHANGED <<rm_vars, api_vars, ex_vars, controller>>
    /\ UNCHANGED bt_vars

\* api_stop
api_stop ==
    /\ bot_state.status # "stopped"
    /\ bot_state' = [bot_state EXCEPT !.status = "stopped"]
    /\ UNCHANGED <<rm_vars, api_vars, ex_vars, controller, threads>>
    /\ UNCHANGED bt_vars

\* api_pause
api_pause ==
    /\ bot_state.status = "running"
    /\ bot_state' = [bot_state EXCEPT !.status = "paused"]
    /\ UNCHANGED <<rm_vars, api_vars, ex_vars, controller, threads>>
    /\ UNCHANGED bt_vars

\* handle_connect: the status follows trading_bot_thread.is_alive().
handle_connect ==
    /\ IF is_alive(bot_state.thread)
       THEN /\ bot_state.status = "stopped"
            /\ bot_state' = [bot_state EXCEPT !.status = "running"]
       ELSE /\ bot_state.status = "running"
            /\ bot_state' = [bot_state EXCEPT !.status = "stopped"]
    /\ UNCHANGED <<rm_vars, api_vars, ex_vars, controller, threads>>
    /\ UNCHANGED bt_vars

\* The thread of api_start begins: it writes the status.
WebLoopBegins ==
    /\ \E i \in 1..Len(threads) :
         /\ threads[i].owner = "web"
         /\ threads[i].pc = "born"
         /\ threads' = Moved(i, "test")
    /\ bot_state' = [bot_state EXCEPT !.status = "running"]
    /\ UNCHANGED <<rm_vars, api_vars, ex_vars, controller>>
    /\ UNCHANGED bt_vars

\* The thread of api_start fails before its loop (get_config raises): the
\* outer handler writes 'stopped'.
WebLoopFatal ==
    /\ \E i \in 1..Len(threads) :
         /\ threads[i].owner = "web"
         /\ threads[i].pc = "born"
         /\ threads' = Moved(i, "done")
    /\ bot_state' = [bot_state EXCEPT !.status = "stopped"]
    /\ UNCHANGED <<rm_vars, api_vars, ex_vars, controller>>
    /\ UNCHANGED bt_vars

\* while bot_state['status'] == 'running'
WebLoopTest ==
    /\ \E i \in 1..Len(threads) :
         /\ threads[i].owner = "web"
         /\ threads[i].pc = "test"
         /\ threads' = Moved(i, IF bot_state.status = "running" THEN "iteration"
                                ELSE "done")
    /\ UNCHANGED <<rm_vars, api_vars, ex_vars, controller, bot_state>>
    /\ UNCHANGED bt_vars

\* analyze_and_trade() and the status updates are over; what they raise is
\* caught inside the loop.
WebLoopIteration ==
    /\ \E i \in 1..Len(threads) :
         /\ threads[i].owner = "web"
         /\ threads[i].pc = "iteration"
         /\ threads' = Moved(i, "sleep")
    /\ UNCHANGED <<rm_vars, api_vars, ex_vars, controller, bot_state>>
    /\ UNCHANGED bt_vars

\* time.sleep(interval) is over.
WebLoopSleep ==
    /\ \E i \in 1..Len(threads) :
         /\ threads[i].owner = "web"
         /\ threads[i].pc = "sleep"
         /\ threads' = Moved(i, "test")
    /\ UNCHANGED <<rm_vars, api_vars, ex_vars, controller, bot_state>>
    /\ UNCHANGED bt_vars

NextCtl ==
    \/ start
    \/ stop
    \/ JoinReturns
    \/ JoinTimesOut
    \/ pause
    \/ resume
    \/ RunBotTest
    \/ RunBotIteration
    \/ RunBotRaises
    \/ RunBotSleep
    \/ api_start
    \/ api_stop
    \/ api_pause
    \/ handle_connect
    \/ WebLoopBegins
    \/ WebLoopFatal
    \/ WebLoopTest
    \/ WebLoopIteration
    \/ WebLoopSleep

SpecCtl == InitCtl /\ [][NextCtl]_vars

\* C4: for any interleaving of start / stop / pause / resume on
\* BotController and of start / stop / pause requests on the web control,
\* at most one loop thread of the same bot is inside a trading iteration:
\* two iterations never overlap.
C4_NoOverlappingIterations ==
    \A i, j \in 1..Len(threads) :
        /\ i # j
        /\ threads[i].owner = threads[j].owner
        => ~(threads[i].pc = "iteration" /\ threads[j].pc = "iteration")

---------------------------------------------------------------------------
(* Backtester: walk_forward_validation and _backtest_period.  Rows of      *)
(* all_data are numbered from 0; money is in hundredths of a dollar and    *)
(* every product or quotient of money is rounded to that unit.             *)

\* walk_forward_validation(train_size, test_size, total_periods), scaled
\* down from (400, 200, 3).
BtTrainSize == 100
BtTestSize == 52
BtPeriods == 2
\* len(all_data) after cleaning.
BtRows == {151, 160, 204}
\* A period is skipped under 100 training rows or 50 test rows.
min_train_rows == 100
min_test_rows == 50
\* _backtest_period trades from the 50th bar of its window on.
bt_warmup == 50
\* create_ml_target(forward_bars=1): the label of a row is computed from
\* the close forward_bars rows later.
forward_bars == 1
\* Backtester(initial_capital=1000.0, commission=0.0006)
bt_initial_capital == 100000
commission_per_10000 == 6
\* What a bar of the test window holds.
BtPrices == {85, 100, 115}
BtAtrs == {0, 5}

\* ml_signal == 'UP' in _generate_signal: predict_single returns the class
\* as an integer, and no integer equals a string.
PyEqualsStr(number, string) == FALSE

\* _generate_signal: None is [should_trade |-> FALSE].
bt_generate_signal(predict_ok, ml_signal, ml_confidence) ==
    IF ~predict_ok
    THEN [should_trade |-> FALSE, direction |-> "None"]
    ELSE IF ml_confidence < ml_threshold
    THEN [should_trade |-> FALSE, direction |-> "None"]
    ELSE IF 0 < sentiment_threshold
    THEN [should_trade |-> FALSE, direction |-> "None"]
    ELSE [should_trade |-> TRUE,
          direction |-> IF PyEqualsStr(ml_signal, "UP") THEN "long" ELSE "short"]

\* _calculate_pnl: gross PnL on quantity = position_size / entry_price,
\* less the commission of entry and exit.
calculate_pnl(position, exit_price) ==
    LET gross_pnl ==
            IF position.side = "long"
            THEN RoundHalfEven((exit_price - position.entry_price) * position.quantity[1],
                               position.quantity[2])
            ELSE RoundHalfEven((position.entry_price - exit_price) * position.quantity[1],
                               position.quantity[2])
        commission == RoundHalfEven(position.position_size * commission_per_10000 * 2,
                                    10000)
    IN  gross_pnl - commission

\* _calculate_period_metrics, the fields that depend on the capital;
\* max_drawdown is kept as a fraction of the peak (the code reports it
\* times 100, in percent).
calculate_period_metrics(trades, final_capital, peak_capital) ==
    IF trades = << >>
    THEN [total_trades |-> 0, max_drawdown |-> <<0, 1>>]
    ELSE [total_trades |-> Len(trades),
          final_capital |-> final_capital,
          peak_capital |-> peak_capital,
          max_drawdown |-> IF peak_capital > 0
                           THEN <<peak_capital - final_capital, peak_capital>>
                           ELSE <<0, 1>>]

\* The exit test that tries the take-profit before the stop-loss.
MutExitTakeProfitFirst(position, current_price) ==
    IF position.side = "long"
    THEN IF current_price >= position.take_profit
         THEN [exit_price |-> position.take_profit, exit_reason |-> "take_profit"]
         ELSE IF current_price <= position.stop_loss
         THEN [exit_price |-> position.stop_loss, exit_reason |-> "stop_loss"]
         ELSE [exit_price |-> 0, exit_reason |-> "None"]
    ELSE IF current_price <= position.take_profit
         THEN [exit_price |-> position.take_profit, exit_reason |-> "take_profit"]
         ELSE IF current_price >= position.stop_loss
         THEN [exit_price |-> position.stop_loss, exit_reason |-> "stop_loss"]
         ELSE [exit_price |-> 0, exit_reason |-> "None"]

\* The exit test of the bar loop for one position: the price and the reason,
\* price 0 when nothing fires (exit_price stays None).
bt_exit(position, current_price) ==
    IF position.side = "long"
    THEN IF current_price <= position.stop_loss
         THEN [exit_price |-> position.stop_loss, exit_reason |-> "stop_loss"]
         ELSE IF current_price >= position.take_profit
         THEN [exit_price |-> position.take_profit, exit_reason |-> "take_profit"]
         ELSE [exit_price |-> 0, exit_reason |-> "None"]
    ELSE IF current_price >= position.stop_loss
         THEN [exit_price |-> position.stop_loss, exit_reason |-> "stop_loss"]
         ELSE IF current_price <= position.take_profit
         THEN [exit_price |-> position.take_profit, exit_reason |-> "take_profit"]
         ELSE [exit_price |-> 0, exit_reason |-> "None"]

\* The trade record of a closed position.
bt_trade(bt, position, exit_time, exit_price, pnl, exit_reason) ==
    [ period |-> bt.period, entry_time |-> position.entry_time,
      exit_time |-> exit_time, side |-> position.side,
      entry_price |-> position.entry_price, exit_price |-> exit_price,
      quantity |-> position.quantity, pnl |-> pnl, exit_reason |-> exit_reason ]

\* "for position in positions[:]" of the bar loop, from position k on: an
\* exit whose price is not 0 credits the PnL, raises the peak, records the
\* trade and removes the position.
RECURSIVE bt_check_exits(_, _, _)
bt_check_exits(bt, todo, current_price) ==
    IF todo = << >> THEN bt
    ELSE LET position == Head(todo)
             e == bt_exit(position, current_price)
             pnl == calculate_pnl(position, e.exit_price)
             capital == bt.capital + pnl
             k == CHOOSE j \in 1..Len(bt.positions) : bt.positions[j] = position
             bt1 == IF e.exit_price # 0
                    THEN [bt EXCEPT
                            !.capital = capital,
                            !.peak_capital = Max(@, capital),
                            !.period_trades =
                                Append(@, bt_trade(bt, position, bt.i, e.exit_price,
                                                   pnl, e.exit_reason)),
                            !.positions = RemoveAt(@, k)]
                    ELSE bt
         IN  bt_check_exits(bt1, Tail(todo), current_price)

\* The rest of the bar: with no position left, a signal opens one.
bt_open(bt, current_price, current_atr, new_signal) ==
    IF Len(bt.positions) = 0 /\ new_signal.should_trade
    THEN LET position_size == RoundHalfEven(bt.capital * risk_per_trade_percent, 100)
             long == new_signal.direction = "long"
             position ==
                 [ entry_time |-> bt.i, side |-> new_signal.direction,
                   entry_price |-> current_price,
                   quantity |-> <<position_size, current_price>>,
                   position_size |-> position_size,
                   stop_loss |-> IF long THEN current_price - (2 * current_atr)
                                 ELSE current_price + (2 * current_atr),
                   take_profit |-> IF long THEN current_price + (3 * current_atr)
                                   ELSE current_price - (3 * current_atr) ]
         IN  [bt EXCEPT !.positions = Append(@, position)]
    ELSE bt

\* The end of the period that records nothing for the remaining positions.
MutCloseRemainingSkips(bt, todo) == bt

\* "Close any remaining positions at end", from the first position on: the
\* PnL at the last close is credited and the trade recorded.
RECURSIVE bt_close_remaining(_, _)
bt_close_remaining(bt, todo) ==
    IF todo = << >> THEN bt
    ELSE LET position == Head(todo)
             pnl == calculate_pnl(position, bt.price)
             bt1 == [bt EXCEPT
                       !.capital = @ + pnl,
                       !.period_trades =
                           Append(@, bt_trade(bt, position, bt.n_bars - 1, bt.price,
                                              pnl, "period_end"))]
         IN  bt_close_remaining(bt1, Tail(todo))

\* total_periods after the adjustment to the data.
bt_total_periods(n_rows) ==
    IF n_rows < BtTrainSize + (BtTestSize * BtPeriods)
    THEN (n_rows - BtTrainSize) \div BtTestSize
    ELSE BtPeriods

\* walk_forward_validation up to its for-loop; with too little data it
\* returns at once.
InitBT ==
    /\ risk_manager = RiskManagerInit
    /\ today = 1
    /\ clock = 1
    /\ closed_trades = {}
    /\ ret = [op |-> "init"]
    /\ steps = 0
    /\ mode = "backtest"
    /\ dry_run = FALSE
    /\ pc = "backtest"
    /\ queue = << >>
    /\ iteration = 0
    /\ active_positions = EmptyDict
    /\ exchange = NoCalls
    /\ trades_db = << >>
    /\ signal = [at |-> <<0, "">>]
    /\ controller = [running |-> FALSE, paused |-> FALSE, thread |-> 0,
                     joining |-> FALSE]
    /\ bot_state = [status |-> "stopped", thread |-> 0]
    /\ threads = << >>
    /\ \E n_rows \in BtRows :
         backtest = [ pc |-> IF n_rows < BtTrainSize + BtTestSize
                             THEN "done" ELSE "period",
                      n_rows |-> n_rows,
                      total_periods |-> IF n_rows < BtTrainSize + BtTestSize
                                        THEN BtPeriods ELSE bt_total_periods(n_rows),
                      period |-> 0,
                      fit |-> None, test |-> None,
                      n_bars |-> 0, i |-> 0, price |-> 0,
                      capital |-> bt_initial_capital,
                      peak_capital |-> bt_initial_capital,
                      positions |-> << >>, period_trades |-> << >>,
                      results |-> None ]

\* One pass of the for-loop over the periods up to the bar loop: the slices,
\* the training, and the start of _backtest_period.  ml_predictor.train is
\* called outside any try: what it raises leaves walk_forward_validation.
StartPeriod ==
    /\ backtest.pc = "period"
    /\ backtest.period < backtest.total_periods
    /\ \E train_ok \in BOOLEAN :
       LET train_start == backtest.period * BtTestSize
           train_end == train_start + BtTrainSize
           test_end == train_end + BtTestSize
           n == backtest.n_rows
           train_len == Min(train_end, n) - Min(train_start, n)
           test_len == Min(test_end, n) - Min(train_end, n)
           first_bar == Min(bt_warmup - 1, test_len)
       IN  IF train_len < min_train_rows \/ test_len < min_test_rows
           THEN backtest' = [backtest EXCEPT !.period = @ + 1]
           ELSE IF ~train_ok
           THEN backtest' = [backtest EXCEPT !.pc = "raised"]
           ELSE backtest' =
                  [backtest EXCEPT
                     !.fit = [ rows |-> <<Min(train_start, n), Min(train_end, n)>>,
                               last_label_bar |->
                                   Min(Min(train_end, n) - 1 + forward_bars, n - 1) ],
                     !.test = <<Min(train_end, n), Min(test_end, n)>>,
                     !.n_bars = test_len,
                     !.i = first_bar,
                     !.price = 0,
                     !.capital = bt_initial_capital,
                     !.peak_capital = bt_initial_capital,
                     !.positions = << >>,
                     !.period_trades = << >>,
                     !.results = None,
                     !.pc = IF first_bar < test_len THEN "bars" ELSE "end"]
    /\ UNCHANGED <<rm_vars, api_vars, ex_vars, ctl_vars>>

\* One bar of _backtest_period: the exits, then the signal and the entry.
Bar ==
    /\ backtest.pc = "bars"
    /\ \E current_price \in BtPrices, current_atr \in BtAtrs,
          predict_ok \in BOOLEAN, ml_signal \in MlPredictions,
          ml_confidence \in Confidences :
         LET bt0 == [backtest EXCEPT !.price = current_price]
             bt1 == bt_check_exits(bt0, bt0.positions, current_price)
             bt2 == bt_open(bt1, current_price, current_atr,
                            bt_generate_signal(predict_ok, ml_signal, ml_confidence))
         IN  backtest' = [bt2 EXCEPT !.i = @ + 1,
                                     !.pc = IF bt2.i + 1 < bt2.n_bars
                                            THEN "bars" ELSE "end"]
    /\ UNCHANGED <<rm_vars, api_vars, ex_vars, ctl_vars>>

\* The end of _backtest_period: the remaining positions are closed at the
\* last close and the metrics computed; the for-loop goes to the next period.
PeriodEnd ==
    /\ backtest.pc = "end"
    /\ LET bt1 == bt_close_remaining(backtest, backtest.positions)
       IN  backtest' =
             [bt1 EXCEPT !.results = calculate_period_metrics(bt1.period_trades,
                                                              bt1.capital,
                                                              bt1.peak_capital),
                         !.period = @ + 1,
                         !.pc = "period"]
    /\ UNCHANGED <<rm_vars, api_vars, ex_vars, ctl_vars>>

\* The for-loop over the periods is over.
WalkForwardEnds ==
    /\ backtest.pc = "period"
    /\ backtest.period >= backtest.total_periods
    /\ backtest' = [backtest EXCEPT !.pc = "done"]
    /\ UNCHANGED <<rm_vars, api_vars, ex_vars, ctl_vars>>

NextBT ==
    \/ StartPeriod
    \/ Bar
    \/ PeriodEnd
    \/ WalkForwardEnds

SpecBT == InitBT /\ [][NextBT]_vars

---------------------------------------------------------------------------
(* Properties of the backtest.                                             *)

\* stop_loss < entry_price < take_profit when long, the reverse when short
Brackets(direction, entry_price, stop_loss, take_profit) ==
    IF direction = "long"
    THEN stop_loss < entry_price /\ entry_price < take_profit
    ELSE take_profit < entry_price /\ entry_price < stop_loss

\* C16: every position registered by the executor or opened in the backtest
\* has stop_loss < entry_price < take_profit when long and
\* take_profit < entry_price < stop_loss when short, for every ATR value
\* the data can supply.
C16_StopsBracketEntry ==
    /\ \A k \in 1..Len(risk_manager.open_positions) :
         LET position == risk_manager.open_positions[k]
         IN  Brackets(position.direction, position.entry_price,
                      position.stop_loss, position.take_profit)
    /\ backtest.pc # "idle" =>
         \A k \in 1..Len(backtest.positions) :
           LET position == backtest.positions[k]
           IN  Brackets(position.side, position.entry_price,
                        position.stop_loss, position.take_profit)

\* C17: for every walk-forward period p the model is trained on exactly the
\* rows [p*test_size, p*test_size + train_size) and replayed on
\* [train_end, train_end + test_size), the largest training index is below
\* the smallest test index, and nothing the model is fitted on, features or
\* labels, is derived from a bar with index >= train_end.
C17_TrainingSeesNoTestBar ==
    backtest.pc \in {"bars", "end"} =>
        LET train_start == backtest.period * BtTestSize
            train_end == train_start + BtTrainSize
        IN  /\ backtest.fit.rows = <<train_start, train_end>>
            /\ backtest.test = <<train_end, train_end + BtTestSize>>
            /\ backtest.fit.rows[2] - 1 < backtest.test[1]
            /\ backtest.fit.last_label_bar < train_end

\* The records of period_trades made for the position opened at entry_time.
RecordsOf(trades, entry_time) ==
    {k \in 1..Len(trades) : trades[k].entry_time = entry_time}

\* C18: in a backtest period every position opened is closed exactly once
\* and yields exactly one trade record: by a stop-loss or take-profit exit
\* at a later bar, at the level that fired, or, if still open after the last
\* bar, at the last bar's close with exit reason period_end.  At most one
\* position is open at any bar and none is without its record when the
\* metrics are computed.
C18_EveryPositionClosedOnce ==
    /\ [][ backtest.pc \in {"bars", "end"} =>
           LET old == backtest.positions
               new == backtest'.positions
               trades == backtest.period_trades
               trades_after == backtest'.period_trades
               gone == {k \in 1..Len(old) :
                          \A j \in 1..Len(new) : new[j] # old[k]}
           IN  /\ Len(new) <= 1
               /\ SubSeq(trades_after, 1, Len(trades)) = trades
               /\ IF backtest.pc = "bars"
                  THEN /\ Len(trades_after) = Len(trades) + Cardinality(gone)
                       /\ \A k \in gone :
                            \E j \in Len(trades) + 1..Len(trades_after) :
                              LET trade == trades_after[j]
                              IN  /\ trade.entry_time = old[k].entry_time
                                  /\ trade.exit_time = backtest.i
                                  /\ trade.exit_time > trade.entry_time
                                  /\ \/ /\ trade.exit_reason = "stop_loss"
                                        /\ trade.exit_price = old[k].stop_loss
                                     \/ /\ trade.exit_reason = "take_profit"
                                        /\ trade.exit_price = old[k].take_profit
                  ELSE /\ Len(trades_after) = Len(trades) + Len(old)
                       /\ \A k \in 1..Len(old) :
                            \E j \in Len(trades) + 1..Len(trades_after) :
                              LET trade == trades_after[j]
                              IN  /\ trade.entry_time = old[k].entry_time
                                  /\ trade.exit_reason = "period_end"
                                  /\ trade.exit_price = backtest.price
                                  /\ trade.exit_time = backtest.n_bars - 1
                       /\ backtest'.results.total_trades = Len(trades_after)
         ]_vars
    /\ [](backtest.pc \in {"bars", "end", "period", "done"} =>
           /\ \A j \in 1..Len(backtest.period_trades) :
                Cardinality(RecordsOf(backtest.period_trades,
                                      backtest.period_trades[j].entry_time)) = 1
           /\ \A k \in 1..Len(backtest.positions) :
                Cardinality(RecordsOf(backtest.period_trades,
                                      backtest.positions[k].entry_time))
                  = IF backtest.pc \in {"bars", "end"} THEN 0 ELSE 1)

\* The metrics of a period have been computed over a trade closed by its
\* stop-loss or take-profit and a trade closed at the period's end.
C18_Witness ==
    /\ backtest.pc = "period"
    /\ backtest.results # None
    /\ \E j \in 1..Len(backtest.period_trades) :
         backtest.period_trades[j].exit_reason \in {"stop_loss", "take_profit"}
    /\ \E j \in 1..Len(backtest.period_trades) :
         backtest.period_trades[j].exit_reason = "period_end"

\* The capital after each closed trade, from the capital the period starts
\* with.
RECURSIVE EquityPath(_, _)
EquityPath(capital, trades) ==
    IF trades = << >> THEN <<capital>>
    ELSE <<capital>> \o EquityPath(capital + Head(trades).pnl, Tail(trades))

\* The largest decline from a running peak over a path, as a fraction of
\* that peak.
RECURSIVE MaxDrawdown(_, _, _)
MaxDrawdown(path, peak, worst) ==
    IF path = << >> THEN worst
    ELSE LET new_peak == Max(peak, Head(path))
             decline == <<new_peak - Head(path), new_peak>>
         IN  MaxDrawdown(Tail(path), new_peak,
                         IF RLess(worst, decline) THEN decline ELSE worst)

\* C19: the max_drawdown reported for a period equals the largest
\* peak-to-trough decline over the period's equity path, the capital after
\* each closed trade including the trades closed at the period's end (25%
\* for the path 10000, 11000, 12000, 10500, 9000, 9500, 11000, 12500).
C19_MaxDrawdownIsPeakToTrough ==
    /\ REq(MaxDrawdown(<<10000, 11000, 12000, 10500, 9000, 9500, 11000, 12500>>,
                       10000, <<0, 1>>), <<25, 100>>)
    /\ backtest.pc \in {"period", "done"} /\ backtest.results # None
       => REq(backtest.results.max_drawdown,
              MaxDrawdown(EquityPath(bt_initial_capital, backtest.period_trades),
                          bt_initial_capital, <<0, 1>>))

---------------------------------------------------------------------------
(* EnsemblePredictor.predict: the weighted vote of the random forest, the  *)
(* LSTM and the sentiment.  Weights are hundredths, confidences hundredths, *)
(* so a score is in ten-thousandths of the normalised weight total.         *)

\* ensemble_rf_weight, ensemble_lstm_weight, ensemble_sentiment_weight and
\* trading.min_confidence, at their defaults.
rf_weight == 40
lstm_weight == 40
sentiment_weight == 20
ens_min_confidence == 60

\* "Normalize weights": every weight is divided by the total, so the scores
\* are compared as numerators over total_weight * 100.
total_weight == rf_weight + lstm_weight + sentiment_weight

\* What a source can report: sell, hold or buy, and a confidence.
EnsSignals == {-1, 0, 1}
EnsConfidences == {0, 25, 50, 100}

\* details before the sources are asked: a model that is not trained stays
\* at signal 0 with confidence 0.33, a failed sentiment at signal 0.
EnsModelOutputs ==
    {[available |-> FALSE, signal |-> 0, confidence |-> 33]}
    \cup {[available |-> TRUE, signal |-> sig, confidence |-> conf] :
            sig \in EnsSignals, conf \in EnsConfidences}

\* One source's contribution to the score of a direction.
ens_contribution(direction, source_signal, amount) ==
    IF direction = 1 THEN (IF source_signal = 1 THEN amount ELSE 0)
    ELSE IF direction = -1 THEN (IF source_signal = -1 THEN amount ELSE 0)
    ELSE (IF source_signal \notin {1, -1} THEN amount ELSE 0)

\* What the sentiment analyzer reports: get_sentiment_signal is 0 under a
\* confidence of 0.3, whatever the score.
sentiment_min_confidence == 30
EnsSentimentOutputs ==
    {s \in [signal : EnsSignals, confidence : EnsConfidences] :
        s.signal # 0 => s.confidence >= sentiment_min_confidence}

\* The score of a direction under the weights <<rf, lstm, sentiment>>: a
\* model adds its weight times its confidence, the sentiment its whole
\* weight.
ens_weighted_score(weights, direction, rf, lstm, sentiment_signal) ==
    ens_contribution(direction, rf.signal, weights[1] * rf.confidence)
    + ens_contribution(direction, lstm.signal, weights[2] * lstm.confidence)
    + ens_contribution(direction, sentiment_signal, weights[3] * 100)

\* buy_score, sell_score and hold_score.
ens_score(direction, rf, lstm, sentiment_signal) ==
    ens_weighted_score(<<rf_weight, lstm_weight, sentiment_weight>>,
                       direction, rf, lstm, sentiment_signal)

\* The final signal that tests sell before buy.
MutFinalSignalSellFirst(buy_score, sell_score, hold_score) ==
    LET max_score == Max(Max(buy_score, sell_score), hold_score)
    IN  IF max_score = sell_score /\ sell_score > 0 THEN -1
        ELSE IF max_score = buy_score /\ buy_score > 0 THEN 1
        ELSE 0

\* "Determine final signal": buy is tested first, then sell, else hold.
final_signal(buy_score, sell_score, hold_score) ==
    LET max_score == Max(Max(buy_score, sell_score), hold_score)
    IN  IF max_score = buy_score /\ buy_score > 0 THEN 1
        ELSE IF max_score = sell_score /\ sell_score > 0 THEN -1
        ELSE 0

\* The prediction that skips the confidence threshold.
MutPredictNoThreshold(rf, lstm, sentiment_signal) ==
    LET buy_score == ens_score(1, rf, lstm, sentiment_signal)
        sell_score == ens_score(-1, rf, lstm, sentiment_signal)
        hold_score == ens_score(0, rf, lstm, sentiment_signal)
        direction == final_signal(buy_score, sell_score, hold_score)
        confidence == IF direction = 1 THEN buy_score
                      ELSE IF direction = -1 THEN sell_score
                      ELSE hold_score
    IN  [ direction |-> direction, signal |-> direction,
          confidence |-> confidence,
          buy_score |-> buy_score, sell_score |-> sell_score,
          hold_score |-> hold_score ]

\* predict: the scores, the final signal and its confidence, then the
\* confidence threshold.
ensemble_predict(rf, lstm, sentiment_signal) ==
    LET buy_score == ens_score(1, rf, lstm, sentiment_signal)
        sell_score == ens_score(-1, rf, lstm, sentiment_signal)
        hold_score == ens_score(0, rf, lstm, sentiment_signal)
        direction == final_signal(buy_score, sell_score, hold_score)
        confidence == IF direction = 1 THEN buy_score
                      ELSE IF direction = -1 THEN sell_score
                      ELSE hold_score
    IN  [ direction |-> direction,
          signal |-> IF confidence < ens_min_confidence * total_weight
                     THEN 0 ELSE direction,
          confidence |-> confidence,
          buy_score |-> buy_score, sell_score |-> sell_score,
          hold_score |-> hold_score ]

InitEns ==
    /\ risk_manager = RiskManagerInit
    /\ today = 1
    /\ clock = 1
    /\ closed_trades = {}
    /\ ret = [op |-> "init"]
    /\ steps = 0
    /\ mode = "api"
    /\ dry_run = FALSE
    /\ pc = "api"
    /\ queue = << >>
    /\ iteration = 0
    /\ active_positions = EmptyDict
    /\ exchange = NoCalls
    /\ trades_db = << >>
    /\ signal = [at |-> <<0, "">>]
    /\ controller = [running |-> FALSE, paused |-> FALSE, thread |-> 0,
                     joining |-> FALSE]
    /\ bot_state = [status |-> "stopped", thread |-> 0]
    /\ threads = << >>
    /\ backtest = NoBacktest

\* One call of predict.
EnsPredict ==
    /\ \E rf \in EnsModelOutputs, lstm \in EnsModelOutputs,
          sentiment \in EnsSentimentOutputs :
         LET r == ensemble_predict(rf, lstm, sentiment.signal)
         IN  ret' = [ op |-> "predict", rf |-> rf, lstm |-> lstm,
                      sentiment |-> sentiment,
                      direction |-> r.direction, signal |-> r.signal,
                      confidence |-> r.confidence,
                      buy_score |-> r.buy_score, sell_score |-> r.sell_score,
                      hold_score |-> r.hold_score ]
    /\ UNCHANGED <<rm_vars, steps, ex_vars, ctl_vars>>
    /\ UNCHANGED bt_vars

NextEns == EnsPredict

SpecEns == InitEns /\ [][NextEns]_vars

\* C20: the ensemble's direction before thresholding is the one whose
\* weighted score is largest, and when scores are equal buy wins over sell
\* and sell over hold, for every combination of source signals and
\* confidences.
C20_LargestScoreWins ==
    ret.op = "predict" =>
        LET max_score == Max(Max(ret.buy_score, ret.sell_score), ret.hold_score)
        IN  /\ ret.direction = 1 <=> ret.buy_score = max_score
            /\ ret.direction = -1 <=>
                 ret.sell_score = max_score /\ ret.buy_score < max_score
            /\ ret.direction = 0 <=>
                 /\ ret.hold_score = max_score
                 /\ ret.buy_score < max_score
                 /\ ret.sell_score < max_score

\* The three scores are equal and buy is the direction.
C20_Witness ==
    /\ ret.op = "predict"
    /\ ret.buy_score = ret.sell_score
    /\ ret.sell_score = ret.hold_score
    /\ ret.buy_score > 0
    /\ ret.direction = 1

\* min_confidence in the unit of the scores.
EnsThreshold == ens_min_confidence * total_weight

\* C21: whenever predict returns a non-HOLD signal (1 or -1) the returned
\* confidence is at least min_confidence; when the winning score is below
\* min_confidence the returned signal is HOLD (0) and the returned
\* confidence is that sub-threshold winning score.
C21_NonHoldMeetsThreshold ==
    ret.op = "predict" =>
        LET max_score == Max(Max(ret.buy_score, ret.sell_score), ret.hold_score)
        IN  /\ ret.signal \in {1, -1} => ret.confidence >= EnsThreshold
            /\ max_score < EnsThreshold =>
                 ret.signal = 0 /\ ret.confidence = max_score

\* A buy that won under the threshold was returned as HOLD with the buy
\* score as confidence.
C21_Witness ==
    /\ ret.op = "predict"
    /\ ret.direction = 1
    /\ ret.buy_score < EnsThreshold
    /\ ret.signal = 0
    /\ ret.confidence = ret.buy_score

\* weight * confidence of the sources that report the direction, the
\* sentiment with its own confidence.
ClaimedScore(direction) ==
    ens_contribution(direction, ret.rf.signal, rf_weight * ret.rf.confidence)
    + ens_contribution(direction, ret.lstm.signal,
                       lstm_weight * ret.lstm.confidence)
    + ens_contribution(direction, ret.sentiment.signal,
                       sentiment_weight * ret.sentiment.confidence)

\* C22: each of the three sources adds exactly weight * confidence of that
\* source to the score of the direction it reports, with weights normalized
\* to sum to 1; three sources reporting LONG with confidences 0.8, 0.7, 0.9
\* and equal weights give buy_score 0.8, and the three scores never sum to
\* more than 1.
C22_ScoreIsWeightTimesConfidence ==
    /\ LET long(conf) == [available |-> TRUE, signal |-> 1, confidence |-> conf]
       IN  REq(<<ens_weighted_score(<<1, 1, 1>>, 1, long(80), long(70), 1),
                 (1 + 1 + 1) * 100>>, <<80, 100>>)
    /\ ret.op = "predict" =>
         /\ ret.buy_score = ClaimedScore(1)
         /\ ret.sell_score = ClaimedScore(-1)
         /\ ret.hold_score = ClaimedScore(0)
         /\ ret.buy_score + ret.sell_score + ret.hold_score <= total_weight * 100

\* C23: in one trading iteration, if the exit check closes a position
\* (stop-loss or take-profit fired), no new position is opened in the same
\* iteration; a new entry is possible at the earliest in the next one.  An
\* iteration of the backtest is one bar.
C23_NoEntryAfterExit ==
    [][ /\ backtest.pc = "bars"
        /\ Len(backtest'.period_trades) > Len(backtest.period_trades)
        => backtest'.positions = << >> ]_vars

\* The stop-loss condition and the take-profit condition of a position at
\* a price.
StopHit(side, stop_loss, price) ==
    IF side = "long" THEN price <= stop_loss ELSE price >= stop_loss
TargetHit(side, take_profit, price) ==
    IF side = "long" THEN price >= take_profit ELSE price <= take_profit

\* The levels and prices the exit tests are compared on.
ExitLevels == {85, 90, 100, 110, 115}

---------------------------------------------------------------------------
(* The daily trade counter on the entry path of the executor: the gate     *)
(* reads the date in can_open_position, execute_trade then talks to the     *)
(* exchange and registers the position with add_position, which reads the  *)
(* clock again for entry_time.  The date of entry_time is the position's    *)
(* calendar day.                                                            *)

MaxDayOps == 8

InitDay ==
    /\ risk_manager = RiskManagerInit
    /\ today = 1
    /\ clock = 1
    /\ closed_trades = {}
    /\ ret = [op |-> "init"]
    /\ steps = 0
    /\ mode = "api"
    /\ dry_run = FALSE
    /\ pc = "api"
    /\ queue = << >>
    /\ iteration = 0
    /\ active_positions = EmptyDict
    /\ exchange = NoCalls
    /\ trades_db = << >>
    /\ signal = [at |-> <<0, "">>]
    /\ controller = [running |-> FALSE, paused |-> FALSE, thread |-> 0,
                     joining |-> FALSE]
    /\ bot_state = [status |-> "stopped", thread |-> 0]
    /\ threads = << >>
    /\ backtest = NoBacktest

\* The risk check of generate_signal.
DayGate ==
    /\ steps < MaxDayOps
    /\ LET r == can_open_position(risk_manager, today)
       IN  /\ risk_manager' = r.rm
           /\ ret' = [op |-> "can_open_position", ok |-> r.ok, reason |-> r.reason]
    /\ steps' = steps + 1
    /\ UNCHANGED <<today, clock, closed_trades, ex_vars>>
    /\ UNCHANGED ctl_vars
    /\ UNCHANGED bt_vars

\* execute_trade after a gate that accepted: the position is registered, its
\* entry_time read from the clock at that moment.
DayOpen ==
    /\ steps < MaxDayOps
    /\ ret.op = "can_open_position"
    /\ ret.ok
    /\ \E symbol \in Symbols, direction \in Directions, quantity \in Quantities :
         LET entry_price == 100
             atr == 5
             r == add_position(risk_manager, symbol, entry_price, quantity,
                               calculate_stop_loss(entry_price, atr, direction),
                               calculate_take_profit(entry_price, atr, direction),
                               direction, today)
         IN  /\ risk_manager' = r.rm
             /\ ret' = [op |-> "add_position", position |-> r.ret]
    /\ steps' = steps + 1
    /\ UNCHANGED <<today, clock, closed_trades, ex_vars>>
    /\ UNCHANGED ctl_vars
    /\ UNCHANGED bt_vars

NextDay == DayGate \/ DayOpen \/ Midnight

SpecDay == InitDay /\ [][NextDay]_vars

\* The positions opened on a calendar day.
OpenedOn(date) ==
    {k \in 1..Len(risk_manager.open_positions) :
        risk_manager.open_positions[k].entry_time = date}

\* C25: the daily trade counter counts only positions opened on the current
\* calendar day: the first gate evaluation after the date changes resets it
\* to 0 before it is compared with the cap, so trades of an earlier day
\* never block a trade today, and within one calendar day at most
\* max_daily_trades positions are opened through the gate.
C25_DailyCounterCountsToday ==
    /\ [][ /\ steps' = steps + 1
           /\ ret'.op = "can_open_position"
           /\ ret'.reason \in {"OK", "Daily trade limit reached", "Capital too low"}
           => /\ risk_manager'.last_trade_date = today
              /\ risk_manager'.daily_trades = Cardinality(OpenedOn(today))
              /\ ret'.reason = "Daily trade limit reached"
                   <=> Cardinality(OpenedOn(today)) >= max_daily_trades
         ]_vars
    /\ [](\A date \in 1..today : Cardinality(OpenedOn(date)) <= max_daily_trades)

\* C26: for the same capital, entry price, ATR and direction, the notional
\* size the backtest gives a new position equals the size RiskManager
\* computes with the fixed-fractional method,
\* capital * risk_per_trade / (|entry - stop| / entry) capped at
\* capital * max_position_size.  The capital does not change while the
\* position is open; sizes are compared to the cent.
C26_BacktestSizeIsFixedFractional ==
    backtest.pc \in {"bars", "end"} =>
        \A k \in 1..Len(backtest.positions) :
          LET position == backtest.positions[k]
              size == fixed_position_size(RiskManagerOf(backtest.capital),
                                          position.entry_price,
                                          position.stop_loss).position_size
          IN  position.position_size = RoundHalfEven(size[1], size[2])

\* C27: if model training fails for a walk-forward period, that period is
\* skipped and walk_forward_validation continues with the next period; the
\* run still returns, and never raises: every pass of the period loop either
\* starts the replay of a trained period or moves on to the next period.
C27_TrainingFailureSkipsPeriod ==
    [][ backtest.pc = "period" /\ backtest.period < backtest.total_periods
        => \/ /\ backtest'.pc \in {"bars", "end"}
              /\ backtest'.fit # None
              /\ backtest'.period = backtest.period
           \/ /\ backtest'.pc = "period"
              /\ backtest'.period = backtest.period + 1 ]_vars

\* C28: after every completed executor operation (execute_trade,
\* close_position, check_positions, a full loop iteration) the set of
\* symbols in active_positions equals the set of symbols of
\* RiskManager.open_positions, whatever the outcome of the exchange and
\* trade-logger calls made during the operation.
C28_ActiveMatchesRiskManager ==
    pc \in {"check", "analyze", "sleep", "stopping", "stopped"} =>
        DOMAIN active_positions =
            {risk_manager.open_positions[k].symbol :
                k \in 1..Len(risk_manager.open_positions)}

\* C29: after any sequence of trading iterations over any symbol list the
\* number of open positions in RiskManager.open_positions never exceeds
\* max_open_positions.
C29_OpenPositionsWithinMax ==
    Len(risk_manager.open_positions) <= max_open_positions

\* max_open_positions positions are open and the gate has refused the next
\* entry for that reason.
C29_Witness ==
    /\ Len(risk_manager.open_positions) = max_open_positions
    /\ ret.op = "can_open_position"
    /\ ~ret.ok
    /\ ret.reason = "Max open positions reached"

\* The direction the live executor's signal step chooses for a model output:
\* analyze_market names the class, generate_signal gates and maps it.  The
\* sentiment is the neutral 0.0 the backtest uses, the risk manager fresh.
LiveSignal(ml_prediction, ml_confidence) ==
    generate_signal([symbol |-> "BTC/USDT", ml_signal |-> ml_signal_of(ml_prediction),
                     ml_confidence |-> ml_confidence, sentiment_score |-> 0],
                    RiskManagerInit, EmptyDict, 1)

\* C30: for the same model output (prediction, confidence) and the same
\* thresholds, the backtest's signal step and the live executor's signal
\* step choose the same trade direction: long when the model predicts up
\* (1) and short when it predicts down: every position the replay opens
\* has the direction the executor chooses for each model output that makes
\* the replay open it.
C30_BacktestAndLiveAgreeOnDirection ==
    backtest.pc \in {"bars", "end"} =>
        \A k \in 1..Len(backtest.positions) :
          \A ml_prediction \in MlPredictions, ml_confidence \in Confidences :
            LET live == LiveSignal(ml_prediction, ml_confidence)
                replay == bt_generate_signal(TRUE, ml_prediction, ml_confidence)
            IN  replay.should_trade /\ replay.direction = backtest.positions[k].side
                => /\ live.should_trade
                   /\ live.direction = backtest.positions[k].side
                   /\ backtest.positions[k].side =
                        IF ml_prediction = 1 THEN "long" ELSE "short"

=============================================================================
